---------------------------- MODULE Spec2Model ----------------------------
(***************************************************************************)
(* Infix -> postfix conversion (shunting yard) and postfix evaluation of   *)
(* the infix-postfix calculator: src/src/exprparse.rs and the copy of the  *)
(* same code the command line calls, mod in_to_pos of src/src/main.rs.     *)
(*                                                                         *)
(* A string is a sequence of characters, each character a TLA+ string.     *)
(* The operator stack is a sequence whose last element is the top (Vec).   *)
(*                                                                         *)
(* f64 values.  A value is [k |-> "int", n |-> i], an integer the f64      *)
(* holds exactly, or a literal with a fraction, or the unevaluated term    *)
(* [k |-> "term", op, l, r] of an operation whose f64 result is not an     *)
(* integer of magnitude <= ExactMax (a fraction, an infinity, a NaN).      *)
(* Equal model values are the results of equal f64 computations; the sign  *)
(* of a zero is not kept.                                                  *)
(***************************************************************************)
EXTENDS Integers, Sequences, FiniteSets, TLC

VARIABLES
    input,      \* the text handed to from_infix
    pc,         \* "start", "converted" (from_infix returned Ok), "done"
    variant,    \* which copy of from_infix ran: "exprparse" or "main" ("none" before)
    conv,       \* the Result of from_infix
    res         \* the Result of from_infix(..).and_then(evaluate)

vars == <<input, pc, variant, conv, res>>

(***************************** bounds **************************************)
MaxChars == 3
MaxToks == 4
MaxExprNodes == 3
ExactMax == 32767

(***************************** characters **********************************)
AsciiDigits == {"0", "1", "2", "3", "4", "5", "6", "7", "8", "9"}
\* U+0663 ARABIC-INDIC DIGIT THREE: \d of the regex crate is Unicode-aware,
\* str::parse::<f64> is not.
UnicodeDigits == {"u0663"}
OpChars == {"+", "-", "*", "/", "^", "(", ")"}
Whitespace == {" ", "\t", "\n"}

DigitVal(c) ==
    CASE c = "0" -> 0 [] c = "1" -> 1 [] c = "2" -> 2 [] c = "3" -> 3
      [] c = "4" -> 4 [] c = "5" -> 5 [] c = "6" -> 6 [] c = "7" -> 7
      [] c = "8" -> 8 [] c = "9" -> 9

is_whitespace(c) == c \in Whitespace

IsRegexDigit(c) == c \in AsciiDigits \cup UnicodeDigits

Slice(s, from, to) == SubSeq(s, from, to - 1)

RECURSIVE TrimStart(_)
TrimStart(s) ==
    IF s # <<>> /\ is_whitespace(Head(s)) THEN TrimStart(Tail(s)) ELSE s

RECURSIVE TrimEnd(_)
TrimEnd(s) ==
    IF s # <<>> /\ is_whitespace(s[Len(s)])
    THEN TrimEnd(SubSeq(s, 1, Len(s) - 1))
    ELSE s

trim(s) == TrimEnd(TrimStart(s))

(***************************** the regex ***********************************)
\* The first index at or after i that holds no digit.
RECURSIVE DigitsEnd(_, _)
DigitsEnd(s, i) ==
    IF i <= Len(s) /\ IsRegexDigit(s[i]) THEN DigitsEnd(s, i + 1) ELSE i

\* \-?\d+(\.\d+)? at i: the index after the match, 0 when it does not match.
MatchNumber(s, i) ==
    LET j == IF s[i] = "-" THEN i + 1 ELSE i
    IN  IF j <= Len(s) /\ IsRegexDigit(s[j])
        THEN LET k == DigitsEnd(s, j)
             IN  IF k + 1 <= Len(s) /\ s[k] = "." /\ IsRegexDigit(s[k + 1])
                 THEN DigitsEnd(s, k + 1)
                 ELSE k
        ELSE 0

\* The whole pattern at i, the number alternative first.
MatchAt(s, i) ==
    IF MatchNumber(s, i) # 0 THEN MatchNumber(s, i)
    ELSE IF s[i] \in OpChars THEN i + 1
    ELSE 0

\* The leftmost non-overlapping matches from i on, each <<from, to>> (to excluded).
RECURSIVE Matches(_, _)
Matches(s, i) ==
    IF i > Len(s) THEN <<>>
    ELSE IF MatchAt(s, i) # 0
         THEN <<(<<i, MatchAt(s, i)>>)>> \o Matches(s, MatchAt(s, i))
         ELSE Matches(s, i + 1)

find_iter(s) ==
    LET ms == Matches(s, 1)
    IN  [n \in 1..Len(ms) |-> Slice(s, ms[n][1], ms[n][2])]

\* The text between the matches, before the first and after the last.
split(s) ==
    LET ms == Matches(s, 1)
        from(n) == IF n = 1 THEN 1 ELSE ms[n - 1][2]
        to(n) == IF n = Len(ms) + 1 THEN Len(s) + 1 ELSE ms[n][1]
    IN  [n \in 1..(Len(ms) + 1) |-> Slice(s, from(n), to(n))]

(***************************** f64 *****************************************)
IntVal(n) == [k |-> "int", n |-> n]

Abs(n) == IF n < 0 THEN -n ELSE n

Exact(v) == v.k = "int" /\ Abs(v.n) <= ExactMax

RECURSIVE DigitsValue(_)
DigitsValue(ds) ==
    IF ds = <<>> THEN 0
    ELSE 10 * DigitsValue(SubSeq(ds, 1, Len(ds) - 1)) + DigitVal(ds[Len(ds)])

RECURSIVE StripZeros(_)
StripZeros(ds) ==
    IF ds # <<>> /\ ds[Len(ds)] = "0"
    THEN StripZeros(SubSeq(ds, 1, Len(ds) - 1))
    ELSE ds

\* str::parse::<f64> on a match of the regex: Ok for -?[0-9]+(.[0-9]+)?, Err
\* for an operator or parenthesis character and for a digit that is not ASCII.
ParseF64(tok) ==
    LET neg == tok # <<>> /\ tok[1] = "-"
        body == IF neg THEN Tail(tok) ELSE tok
        dots == {i \in 1..Len(body) : body[i] = "."}
        dot == IF dots = {} THEN Len(body) + 1 ELSE CHOOSE i \in dots : TRUE
        ip == SubSeq(body, 1, dot - 1)
        fp == SubSeq(body, dot + 1, Len(body))
        wellFormed ==
            /\ ip # <<>>
            /\ Cardinality(dots) <= 1
            /\ dots # {} => fp # <<>>
            /\ \A i \in 1..Len(body) : i # dot => body[i] \in AsciiDigits
        frac == StripZeros(fp)
        mag == DigitsValue(ip)
    IN  IF ~wellFormed THEN [ok |-> FALSE]
        ELSE IF frac = <<>>
             THEN [ok |-> TRUE, v |-> IntVal(IF neg THEN -mag ELSE mag)]
             ELSE [ok |-> TRUE,
                   v |-> [k |-> "dec", neg |-> neg, int |-> mag, frac |-> frac]]


(***************************** Tokens **************************************)
Num(v) == [t |-> "Num", v |-> v]
Add == [t |-> "Add"]
Sub == [t |-> "Sub"]
Mul == [t |-> "Mul"]
Div == [t |-> "Div"]
Exp == [t |-> "Exp"]
OpP == [t |-> "OpP"]
ClP == [t |-> "ClP"]

Ok(x) == [k |-> "Ok", val |-> x]
Err(e) == [k |-> "Err", err |-> e]
\* Not values of Result: a panic (unwrap of None) and a loop that does not end.
Panic == [k |-> "Panic"]
Diverge == [k |-> "Diverge"]

from_str(s) ==
    IF ParseF64(s).ok THEN Ok(Num(ParseF64(s).v))
    ELSE CASE s = <<"+">> -> Ok(Add)
           [] s = <<"-">> -> Ok(Sub)
           [] s = <<"*">> -> Ok(Mul)
           [] s = <<"/">> -> Ok(Div)
           [] s = <<"^">> -> Ok(Exp)
           [] s = <<"(">> -> Ok(OpP)
           [] s = <<")">> -> Ok(ClP)
           [] OTHER -> Err("ParseError")

prio(tok) ==
    CASE tok.t = "Add" -> 1
      [] tok.t = "Sub" -> 1
      [] tok.t = "Mul" -> 2
      [] tok.t = "Div" -> 2
      [] tok.t = "Exp" -> 3
      [] OTHER -> 0

(***************************** Vec *****************************************)
VecPop(stack) ==
    IF stack = <<>> THEN [some |-> FALSE, rest |-> stack]
    ELSE [some |-> TRUE, val |-> stack[Len(stack)],
          rest |-> SubSeq(stack, 1, Len(stack) - 1)]

VecLast(stack) ==
    IF stack = <<>> THEN [some |-> FALSE]
    ELSE [some |-> TRUE, val |-> stack[Len(stack)]]

\* Option::unwrap
Unwrap(opt) == IF opt.some THEN Ok(opt.val) ELSE Panic

(***************************** from_infix **********************************)
Run(stack, out, last_is_num) ==
    [k |-> "Run", stack |-> stack, out |-> out, last_is_num |-> last_is_num]

\* The "(" arm.
OpenParen(st) ==
    LET stack1 == IF st.last_is_num THEN Append(st.stack, Mul) ELSE st.stack
    IN  Run(Append(stack1, OpP), st.out, st.last_is_num)

\* while let Some(top) = stack.pop() { if top is OpP { found; break } push_back(top) }
\* An iteration that leaves the stack as long as it was would not end.
RECURSIVE PopToOpenParen(_, _)
PopToOpenParen(stack, out) ==
    LET p == VecPop(stack)
    IN  IF ~p.some THEN [k |-> "Done", stack |-> p.rest, out |-> out, found |-> FALSE]
        ELSE IF Len(p.rest) >= Len(stack) THEN Diverge
        ELSE IF p.val = OpP
             THEN [k |-> "Done", stack |-> p.rest, out |-> out, found |-> TRUE]
             ELSE PopToOpenParen(p.rest, Append(out, p.val))

\* The ")" arm of exprparse.rs.
CloseParen(st) ==
    LET r == PopToOpenParen(st.stack, st.out)
    IN  IF r.k # "Done" THEN r
        ELSE IF ~r.found THEN Err("ParseError")
        ELSE Run(r.stack, r.out, st.last_is_num)

\* The ")" arm of main.rs: no found_open_paren.
MainCloseParen(st) ==
    LET r == PopToOpenParen(st.stack, st.out)
    IN  IF r.k # "Done" THEN r
        ELSE Run(r.stack, r.out, st.last_is_num)

\* StopsAt with >= for >: equal precedence groups right to left.
StopsAtEqual(parsed_token, top) == prio(parsed_token) >= prio(top)

\* if parsed_token.prio() > top.prio() { break }
StopsAt(parsed_token, top) == prio(parsed_token) > prio(top)

\* PopByPrio unwrapping the top without looking whether the stack is empty.
RECURSIVE PopByPrioUnchecked(_, _, _)
PopByPrioUnchecked(parsed_token, stack, out) ==
    LET p == VecPop(stack)
    IN  IF Unwrap(p).k = "Panic" THEN Panic
        ELSE IF StopsAt(parsed_token, p.val)
             THEN [k |-> "Done", stack |-> stack, out |-> out]
             ELSE PopByPrioUnchecked(parsed_token, p.rest, Append(out, p.val))

\* while let Some(top) = stack.last() { ..break..; push_back(stack.pop().unwrap()) }
RECURSIVE PopByPrio(_, _, _)
PopByPrio(parsed_token, stack, out) ==
    LET top == VecLast(stack)
    IN  IF ~top.some THEN [k |-> "Done", stack |-> stack, out |-> out]
        ELSE IF StopsAt(parsed_token, top.val)
             THEN [k |-> "Done", stack |-> stack, out |-> out]
        ELSE LET p == VecPop(stack)
             IN  IF Unwrap(p).k = "Panic" THEN Panic
                 ELSE IF Len(p.rest) >= Len(stack) THEN Diverge
                 ELSE PopByPrio(parsed_token, p.rest, Append(out, Unwrap(p).val))

\* The _ arm: an operator.
Operator(st, token) ==
    LET parsed == from_str(token)
    IN  IF parsed.k = "Err" THEN Err("ParseError")
        ELSE LET r == PopByPrio(parsed.val, st.stack, st.out)
             IN  IF r.k # "Done" THEN r
                 ELSE Run(Append(r.stack, parsed.val), r.out, st.last_is_num)

\* One iteration of the for loop over the tokens; checked: the ")" arm is that of
\* exprparse.rs, else that of main.rs.
Step(st, token, checked) ==
    IF ParseF64(token).ok
    THEN Run(st.stack, Append(st.out, Num(ParseF64(token).v)), TRUE)
    ELSE LET r == CASE token = <<"(">> -> OpenParen(st)
                    [] token = <<")">> ->
                        IF checked THEN CloseParen(st) ELSE MainCloseParen(st)
                    [] OTHER -> Operator(st, token)
         IN  IF r.k = "Run" THEN Run(r.stack, r.out, FALSE) ELSE r

RECURSIVE Scan(_, _, _, _)
Scan(st, toks, i, checked) ==
    IF st.k # "Run" \/ i > Len(toks) THEN st
    ELSE Scan(Step(st, toks[i], checked), toks, i + 1, checked)

\* while let Some(token) = stack.pop() { postfix.stack.push_back(token) }
RECURSIVE Drain(_, _)
Drain(stack, out) ==
    LET p == VecPop(stack)
    IN  IF ~p.some THEN Ok(out)
        ELSE IF Len(p.rest) >= Len(stack) THEN Diverge
        ELSE Drain(p.rest, Append(out, p.val))

\* Unmatched looking only at the text before the first match.
UnmatchedBeforeFirst(infix) ==
    LET s == split(infix)[1]
    IN  /\ trim(s) # <<>>
        /\ ~(\A i \in 1..Len(trim(s)) : is_whitespace(trim(s)[i]))

\* .any(|s| !s.trim().is_empty() && !s.trim().chars().all(|ch| ch.is_whitespace()))
Unmatched(infix) ==
    \E n \in 1..Len(split(infix)) :
        LET s == split(infix)[n]
        IN  /\ trim(s) # <<>>
            /\ ~(\A i \in 1..Len(trim(s)) : is_whitespace(trim(s)[i]))

FromInfix(infix, checked) ==
    IF trim(infix) = <<>> THEN Err("EmptyString")
    ELSE IF Unmatched(infix) THEN Err("ParseError")
    ELSE LET st == Scan(Run(<<>>, <<>>, FALSE), find_iter(infix), 1, checked)
         IN  IF st.k # "Run" THEN st ELSE Drain(st.stack, st.out)

\* Postfix::from_infix of exprparse.rs
from_infix(infix) == FromInfix(infix, TRUE)

\* in_to_pos::Postfix::from_infix of main.rs
main_from_infix(infix) == FromInfix(infix, FALSE)

(***************************** evaluate ************************************)
Term(op, lhs, rhs) == [k |-> "term", op |-> op, l |-> lhs, r |-> rhs]

\* base^e for e >= 0, 0 once the magnitude passes ExactMax (no exact power is 0
\* then: the base is not 0).
RECURSIVE PowCapped(_, _)
PowCapped(base, e) ==
    IF e = 0 THEN 1
    ELSE LET q == PowCapped(base, e - 1)
         IN  IF q = 0 \/ Abs(q * base) > ExactMax THEN 0 ELSE q * base

\* base.powf(e) on exact integers: 0^0 = 1, 0^e = 0, and 1 and -1 need no product.
PowInt(base, e) ==
    IF e = 0 THEN 1
    ELSE IF base = 0 THEN 0
    ELSE IF base = 1 THEN 1
    ELSE IF base = -1 THEN (IF e % 2 = 0 THEN 1 ELSE -1)
    ELSE IF e > 15 THEN ExactMax + 1
    ELSE IF PowCapped(base, e) = 0 THEN ExactMax + 1
    ELSE PowCapped(base, e)

\* lhs OP rhs on f64.
Apply(op, lhs, rhs) ==
    IF ~(Exact(lhs) /\ Exact(rhs)) THEN Term(op, lhs, rhs)
    ELSE LET a == lhs.n
             b == rhs.n
             r == CASE op = "Add" -> IntVal(a + b)
                    [] op = "Sub" -> IntVal(a - b)
                    [] op = "Mul" -> IntVal(a * b)
                    [] op = "Div" ->
                        IF b # 0 /\ Abs(a) % Abs(b) = 0
                        THEN IntVal((IF (a < 0) = (b < 0) THEN 1 ELSE -1)
                                    * (Abs(a) \div Abs(b)))
                        ELSE Term(op, lhs, rhs)
                    [] op = "Exp" ->
                        IF b >= 0 THEN IntVal(PowInt(a, b)) ELSE Term(op, lhs, rhs)
         IN  IF Exact(r) THEN r ELSE Term(op, lhs, rhs)

\* EvalStep with a parenthesis skipped instead of popping two values.
EvalStepSkipsParen(stack, token) ==
    IF token.t = "Num" THEN Ok(Append(stack, token.v))
    ELSE IF token.t \in {"OpP", "ClP"} THEN Ok(stack)
    ELSE LET p1 == VecPop(stack)
         IN  IF ~p1.some THEN Err("ParseError")
             ELSE LET p2 == VecPop(p1.rest)
                  IN  IF ~p2.some THEN Err("ParseError")
                      ELSE Ok(Append(p2.rest, Apply(token.t, p2.val, p1.val)))

\* One token: Num pushes; any other token pops val1 then val2, and an operator
\* pushes val2 OP val1 (the _ => {} arm, a parenthesis, pushes nothing).
EvalStep(stack, token) ==
    IF token.t = "Num" THEN Ok(Append(stack, token.v))
    ELSE LET p1 == VecPop(stack)
         IN  IF ~p1.some THEN Err("ParseError")
             ELSE LET p2 == VecPop(p1.rest)
                  IN  IF ~p2.some THEN Err("ParseError")
                      ELSE IF token.t \in {"Add", "Sub", "Mul", "Div", "Exp"}
                           THEN Ok(Append(p2.rest, Apply(token.t, p2.val, p1.val)))
                           ELSE Ok(p2.rest)

\* The value stack after tokens i.. of seq, or the error.
RECURSIVE EvalLoop(_, _, _)
EvalLoop(stack, seq, i) ==
    IF i > Len(seq) THEN Ok(stack)
    ELSE LET r == EvalStep(stack, seq[i])
         IN  IF r.k # "Ok" THEN r ELSE EvalLoop(r.val, seq, i + 1)

\* EvalResult with a leftover value made an error.
EvalResultExactlyOne(stack) ==
    IF Len(stack) = 1 THEN Ok(stack[1]) ELSE Err("ParseError")

\* stack.pop().ok_or(PostfixError::ParseError)
EvalResult(stack) ==
    IF VecPop(stack).some THEN Ok(VecPop(stack).val) ELSE Err("ParseError")

evaluate(seq) ==
    LET r == EvalLoop(<<>>, seq, 1)
    IN  IF r.k # "Ok" THEN r ELSE EvalResult(r.val)

(***************************** inputs **************************************)
InputChars ==
    {"2", "3", ".", "-", "+", "*", "/", "^", "(", ")", " ", "\n", "a", "u0663"}

\* The strings of n characters over InputChars.
Strings(n) == [1..n -> InputChars]

NumToks == {<<"2">>, <<"3">>}
BinOpToks == {<<"+">>, <<"-">>, <<"*">>, <<"/">>, <<"^">>}
TokAlphabet == NumToks \cup BinOpToks \cup {<<"(">>, <<")">>}

\* The sequences of n tokens.
TokSeqs(n) == [1..n -> TokAlphabet]

\* The tokens written one after the other, a space between two.
RECURSIVE Join(_)
Join(toks) ==
    IF toks = <<>> THEN <<>>
    ELSE IF Len(toks) = 1 THEN toks[1]
    ELSE toks[1] \o <<" ">> \o Join(Tail(toks))

\* The well-formed infix token sequences with n operators and parenthesis pairs,
\* given those with fewer (wf[i + 1] has i of them): a number, a parenthesized
\* one, a number before a parenthesized one (the implicit multiplication, an
\* operator and a pair), or two of them around a binary operator. "n" stands
\* for a number.
WellFormedOf(wf, n) ==
    IF n = 0 THEN {<<(<<"n">>)>>}
    ELSE {<<(<<"(">>)>> \o w \o <<(<<")">>)>> : w \in wf[n]}
         \cup (IF n >= 2
               THEN {<<(<<"n">>), (<<"(">>)>> \o w \o <<(<<")">>)>> : w \in wf[n - 1]}
               ELSE {})
         \cup UNION {{a \o <<op>> \o b :
                        a \in wf[i + 1], op \in BinOpToks, b \in wf[n - i]} :
                     i \in 0..(n - 1)}

RECURSIVE WellFormedUpTo(_, _)
WellFormedUpTo(wf, n) ==
    IF n > MaxExprNodes THEN wf
    ELSE WellFormedUpTo(Append(wf, WellFormedOf(wf, n)), n + 1)

\* WellFormed[n + 1]: the well-formed sequences with n operators and
\* parenthesis pairs, n in 0..MaxExprNodes.
WellFormed == WellFormedUpTo(<<>>, 0)

OperandDigits == <<"1", "2", "3", "4", "5", "6", "7", "8", "9">>

\* The numbers of e written as 1, 2, 3, .. from left to right.
Numbered(e) ==
    [m \in 1..Len(e) |->
        IF e[m] = <<"n">>
        THEN <<OperandDigits[(Cardinality({j \in 1..(m - 1) : e[j] = <<"n">>}) % 9) + 1]>>
        ELSE e[m]]

RemoveAt(s, i) == [n \in 1..(Len(s) - 1) |-> IF n < i THEN s[n] ELSE s[n + 1]]

\* e whole (0), or with the token at i left out.
Without(e, i) == IF i = 0 THEN e ELSE RemoveAt(e, i)

None == [k |-> "None"]

(***************************** the program *********************************)
Start ==
    /\ pc = "start"
    /\ variant = "none"
    /\ conv = None
    /\ res = None

\* Any text of at most MaxChars characters.
Init ==
    /\ \E n \in 0..MaxChars : input \in Strings(n)
    /\ Start

\* Any sequence of at most MaxToks tokens, a space between two.
InitTok ==
    /\ \E n \in 0..MaxToks : \E ts \in TokSeqs(n) : input = Join(ts)
    /\ Start

\* A well-formed expression of at most MaxExprNodes operators and parenthesis
\* pairs, whole or with one of its ")" left out.
InitExpr ==
    /\ \E n \in 0..MaxExprNodes : \E e \in WellFormed[n + 1] :
          \E i \in {0} \cup {m \in 1..Len(e) : e[m] = <<")">>} :
              input = Join(Without(Numbered(e), i))
    /\ Start

\* parse_expression is from_infix(expr).and_then(|p| p.evaluate()): an Err of
\* from_infix is the result, and evaluate does not run.
Converted(variantName, r) ==
    /\ pc = "start"
    /\ variant' = variantName
    /\ conv' = r
    /\ pc' = IF r.k = "Ok" THEN "converted" ELSE "done"
    /\ res' = IF r.k = "Ok" THEN None ELSE r
    /\ UNCHANGED input

\* Postfix::from_infix, exprparse.rs
Convert == Converted("exprparse", from_infix(input))

\* in_to_pos::Postfix::from_infix, main.rs
ConvertMain == Converted("main", main_from_infix(input))

\* from_infix(expr).and_then(|p| p.evaluate())
and_then_evaluate(r) == IF r.k = "Ok" THEN evaluate(r.val) ELSE r

parse_expression(expr) == and_then_evaluate(from_infix(expr))

\* Postfix::evaluate (the same code in both files)
Evaluate ==
    /\ pc = "converted"
    /\ res' = and_then_evaluate(conv)
    /\ pc' = "done"
    /\ UNCHANGED <<input, variant, conv>>

Next == Convert \/ ConvertMain \/ Evaluate

Spec == Init /\ [][Next]_vars

SpecTok == InitTok /\ [][Next]_vars

SpecExpr == InitExpr /\ [][Next]_vars

\* Any text of Init or of InitTok.
InitAny ==
    /\ \/ \E n \in 0..MaxChars : input \in Strings(n)
       \/ \E n \in 0..MaxToks : \E ts \in TokSeqs(n) : input = Join(ts)
    /\ Start

SpecAny == InitAny /\ [][Next]_vars

(***************************** reading the input ***************************)
\* The words of a text whose tokens stand a space apart (InitTok, InitExpr).
RECURSIVE Words(_)
Words(s) ==
    IF s = <<>> THEN <<>>
    ELSE LET sp == {i \in 1..Len(s) : s[i] = " "}
             cut == IF sp = {} THEN Len(s) + 1
                    ELSE CHOOSE i \in sp : \A j \in sp : i <= j
         IN  <<SubSeq(s, 1, cut - 1)>> \o Words(SubSeq(s, cut + 1, Len(s)))

\* How many of s[from..to] are x.
Count(s, x, from, to) == Cardinality({i \in from..to : s[i] = x})

IsNumWord(w) == w # <<>> /\ w[Len(w)] \in AsciiDigits

\* Some ")" stands where no "(" before it is still open.
UnmatchedClose(s, open, close) ==
    \E i \in 1..Len(s) : Count(s, close, 1, i) > Count(s, open, 1, i)

\* Some "(" is closed by no ")" after it.
UnmatchedOpen(s, open, close) ==
    \E i \in 1..Len(s) :
        /\ s[i] = open
        /\ \A j \in (i + 1)..Len(s) :
              Count(s, close, i + 1, j) <= Count(s, open, i + 1, j)

\* The position of the first "(" that no ")" closes.
FirstUnmatchedOpen(s, open, close) ==
    CHOOSE i \in 1..Len(s) :
        /\ s[i] = open
        /\ \A j \in (i + 1)..Len(s) :
              Count(s, close, i + 1, j) <= Count(s, open, i + 1, j)
        /\ \A h \in 1..(i - 1) :
              ~(/\ s[h] = open
                /\ \A j \in (h + 1)..Len(s) :
                      Count(s, close, h + 1, j) <= Count(s, open, h + 1, j))

Balanced(s, open, close) ==
    ~UnmatchedClose(s, open, close) /\ ~UnmatchedOpen(s, open, close)

\* A number stands right before a "(".
ImplicitAt(w, i) == i < Len(w) /\ IsNumWord(w[i]) /\ w[i + 1] = <<"(">>

HasImplicit(w) == \E i \in 1..Len(w) : ImplicitAt(w, i)

InsertAt(s, i, x) == SubSeq(s, 1, i) \o <<x>> \o SubSeq(s, i + 1, Len(s))

IsOperator(tok) == tok.t \in {"Add", "Sub", "Mul", "Div", "Exp"}

(***************************** claims **************************************)
InputWords == Words(input)

\* C1: when a ")" is processed while no "(" is on the operator stack (a ")"
\* that no earlier "(" matches), from_infix returns Err(ParseError), in
\* exprparse.rs and in the copy of main.rs alike.
C1_UnmatchedCloseRejected ==
    (pc # "start" /\ UnmatchedClose(input, "(", ")")) => conv = Err("ParseError")

\* C2: for an input the lexer accepts that holds a "(" no ")" matches,
\* from_infix followed by evaluate (exprparse.rs) returns Err(ParseError).
C2_UnmatchedOpenRejected ==
    (/\ pc = "done"
     /\ variant = "exprparse"
     /\ UnmatchedOpen(InputWords, <<"(">>, <<")">>))
    => res = Err("ParseError")

\* C8: a postfix sequence from_infix returns as Ok holds only numbers and the
\* binary operators: never OpP, never ClP.
C8_NoStructuralToken ==
    (pc # "start" /\ variant = "exprparse" /\ conv.k = "Ok")
    => \A i \in 1..Len(conv.val) : conv.val[i].t = "Num" \/ IsOperator(conv.val[i])

\* C10: from_infix ends with Ok or Err and so does evaluate: no unwrap of None
\* (Panic), no loop over the operator stack that fails to shrink it (Diverge),
\* and the errors are the two of PostfixError.
C10_Total ==
    /\ pc # "start" =>
          /\ conv.k \in {"Ok", "Err"}
          /\ conv.k = "Err" => conv.err \in {"ParseError", "EmptyString"}
    /\ pc = "done" =>
          /\ res.k \in {"Ok", "Err"}
          /\ res.k = "Err" => res.err \in {"ParseError", "EmptyString"}

\* C10's case: the operator-popping loop moved an operator to the output before
\* the end of the scan (no parenthesis in the input), and evaluate has returned.
C10_Witness ==
    /\ pc = "done"
    /\ variant = "exprparse"
    /\ conv.k = "Ok"
    /\ res.k = "Err"
    /\ \E i \in 1..Len(conv.val) : conv.val[i].t = "Num"
    /\ \A i \in 1..Len(input) : input[i] \notin {"(", ")"}
    /\ \E i \in 1..(Len(conv.val) - 1) : IsOperator(conv.val[i])

(* C3 *)
\* The input is a well-formed expression less one ")" (InitExpr).
OneOpenUnmatched ==
    Count(InputWords, <<"(">>, 1, Len(InputWords))
        = Count(InputWords, <<")">>, 1, Len(InputWords)) + 1

\* C3 as stated: with one "(" unmatched in an otherwise well-formed expression,
\* conversion succeeds and conversion followed by evaluation returns Ok of the
\* value the expression has without that "(".
C3_UnmatchedOpenTolerated ==
    (pc = "done" /\ variant = "exprparse" /\ OneOpenUnmatched)
    => /\ conv.k = "Ok"
       /\ res.k = "Ok"
       /\ res = parse_expression(Join(RemoveAt(InputWords,
                    FirstUnmatchedOpen(InputWords, <<"(">>, <<")">>))))

\* C3, amended: with one "(" unmatched in an otherwise well-formed expression,
\* conversion succeeds, the "(" is drained into the output at the end of the scan
\* (one OpP, after every number, and no ClP), and conversion followed by
\* evaluation returns Err(ParseError).
C3_UnmatchedOpenDrainedThenError ==
    (pc # "start" /\ OneOpenUnmatched)
    => /\ conv.k = "Ok"
       /\ Count(conv.val, OpP, 1, Len(conv.val)) = 1
       /\ Count(conv.val, ClP, 1, Len(conv.val)) = 0
       /\ \A i, j \in 1..Len(conv.val) :
             (conv.val[i] = OpP /\ conv.val[j].t = "Num") => j < i
       /\ pc = "done" => res = Err("ParseError")

\* C3's case: "(" unmatched before a complete sum or product, evaluated.
C3_Witness ==
    /\ pc = "done"
    /\ variant = "exprparse"
    /\ OneOpenUnmatched
    /\ Len(InputWords) >= 4
    /\ InputWords[1] = <<"(">>
    /\ \E i \in 1..Len(InputWords) : InputWords[i] \in BinOpToks
    /\ conv.k = "Ok"
    /\ res.k = "Err"

(* C4 *)
RefPrec(w) ==
    CASE w \in {<<"+">>, <<"-">>} -> 1
      [] w \in {<<"*">>, <<"/">>} -> 2
      [] w = <<"^">> -> 3

RefOp(w) ==
    CASE w = <<"+">> -> Add
      [] w = <<"-">> -> Sub
      [] w = <<"*">> -> Mul
      [] w = <<"/">> -> Div
      [] w = <<"^">> -> Exp

Leaf(v) == [leaf |-> TRUE, v |-> v]
Node(op, l, r) == [leaf |-> FALSE, op |-> op, l |-> l, r |-> r]

\* The reference parser: precedence climbing, an operator taking to its right
\* only operators that bind tighter (left-to-right grouping at equal precedence).
RECURSIVE RefExpr(_, _, _)
RECURSIVE RefPrimary(_, _)
RECURSIVE RefClimb(_, _, _, _)
RefPrimary(w, i) ==
    IF w[i] = <<"(">>
    THEN LET r == RefExpr(w, i + 1, 1) IN [tree |-> r.tree, next |-> r.next + 1]
    ELSE [tree |-> Leaf(DigitVal(w[i][1])), next |-> i + 1]

RefClimb(w, lhs, next, minPrec) ==
    IF next <= Len(w) /\ w[next] \in BinOpToks /\ RefPrec(w[next]) >= minPrec
    THEN LET rhs == RefExpr(w, next + 1, RefPrec(w[next]) + 1)
         IN  RefClimb(w, Node(RefOp(w[next]), lhs, rhs.tree), rhs.next, minPrec)
    ELSE [tree |-> lhs, next |-> next]

RefExpr(w, i, minPrec) ==
    LET p == RefPrimary(w, i) IN RefClimb(w, p.tree, p.next, minPrec)

RefParse(w) == RefExpr(w, 1, 1).tree

RECURSIVE PostOrder(_)
PostOrder(tree) ==
    IF tree.leaf THEN <<Num(IntVal(tree.v))>>
    ELSE PostOrder(tree.l) \o PostOrder(tree.r) \o <<tree.op>>

RECURSIVE TreeValue(_)
TreeValue(tree) ==
    IF tree.leaf THEN IntVal(tree.v)
    ELSE Apply(tree.op.t, TreeValue(tree.l), TreeValue(tree.r))

\* A well-formed expression: balanced, no number right before a "(".
WellFormedInput ==
    Balanced(InputWords, <<"(">>, <<")">>) /\ ~HasImplicit(InputWords)

\* C4: for a well-formed infix expression (no implicit multiplication)
\* from_infix returns the post-order of the tree the reference parser builds
\* (^ over * / over + -, left to right at equal precedence), with no
\* parenthesis in it, and evaluate returns the value of that tree, lhs OP rhs.
C4_MatchesReferenceParser ==
    (pc # "start" /\ WellFormedInput)
    => /\ conv = Ok(PostOrder(RefParse(InputWords)))
       /\ \A i \in 1..Len(conv.val) : conv.val[i].t \notin {"OpP", "ClP"}
       /\ pc = "done" => res = Ok(TreeValue(RefParse(InputWords)))

\* C4's case: a parenthesized operand and two operators, converted and evaluated.
C4_Witness ==
    /\ pc = "done"
    /\ variant = "exprparse"
    /\ WellFormedInput
    /\ \E i \in 1..Len(InputWords) : InputWords[i] = <<"(">>
    /\ Cardinality({i \in 1..Len(InputWords) : InputWords[i] \in BinOpToks}) >= 2
    /\ res.k = "Ok"

(* C5 *)
\* C5: a whitespace character put next to an operator or parenthesis character
\* changes neither the postfix sequence of from_infix nor the result of evaluate.
C5_WhitespaceInsensitive ==
    (pc = "done" /\ variant = "exprparse")
    => \A i \in 0..Len(input) : \A ws \in Whitespace :
          ((i >= 1 /\ input[i] \in OpChars) \/ (i < Len(input) /\ input[i + 1] \in OpChars))
          => /\ from_infix(InsertAt(input, i, ws)) = conv
             /\ parse_expression(InsertAt(input, i, ws)) = res

(* C6 *)
\* C6: where a number stands right before a "(", the postfix sequence and the
\* value are those of the same input with "*" written between the two.
C6_ImplicitIsExplicit ==
    (pc = "done" /\ variant = "exprparse")
    => \A i \in 1..Len(InputWords) :
          ImplicitAt(InputWords, i)
          => /\ from_infix(Join(InsertAt(InputWords, i, <<"*">>))) = conv
             /\ parse_expression(Join(InsertAt(InputWords, i, <<"*">>))) = res

(* C7 *)
Blank(s) == \A i \in 1..Len(s) : s[i] \in {" ", "\t", "\n"}

\* The "." at i is the point of a numeric literal: a digit on each side, and the
\* digits before it are not the fraction of a literal.
RECURSIVE LiteralPoint(_, _)
LiteralPoint(s, i) ==
    /\ s[i] = "."
    /\ 1 < i /\ i < Len(s)
    /\ s[i - 1] \in AsciiDigits /\ s[i + 1] \in AsciiDigits
    /\ ~\E j \in 1..(i - 1) :
          /\ \A h \in (j + 1)..(i - 1) : s[h] \in AsciiDigits
          /\ LiteralPoint(s, j)

\* s[i] is no whitespace, no part of a numeric literal, none of + - * / ^ ( ).
Stray(s, i) ==
    /\ s[i] \notin {" ", "\t", "\n"}
    /\ s[i] \notin {"+", "-", "*", "/", "^", "(", ")"}
    /\ s[i] \notin AsciiDigits
    /\ ~LiteralPoint(s, i)

\* C7: from_infix returns Err(EmptyString) exactly for an empty or all-whitespace
\* input, Err(ParseError) for a non-blank input with a character that is no
\* whitespace, no part of a numeric literal and none of + - * / ^ ( ); an Err
\* of from_infix is the result (nothing is evaluated), and evaluate never
\* returns EmptyString.
C7_LexicalErrors ==
    pc # "start"
    => /\ (conv = Err("EmptyString")) <=> Blank(input)
       /\ (~Blank(input) /\ \E i \in 1..Len(input) : Stray(input, i))
          => conv = Err("ParseError")
       /\ conv.k = "Err" => (pc = "done" /\ res = conv)
       /\ (pc = "done" /\ conv.k = "Ok") => res # Err("EmptyString")

\* C7's case: a stray character after a number, rejected.
C7_Witness ==
    /\ pc = "done"
    /\ variant = "exprparse"
    /\ Len(input) >= 2
    /\ input[1] \in AsciiDigits
    /\ Stray(input, Len(input))
    /\ conv = Err("ParseError")

(* C9 *)
\* The length the value stack has after i tokens of seq, as long as no pop failed.
RECURSIVE Depth(_, _)
Depth(seq, i) ==
    IF i = 0 THEN 0
    ELSE IF seq[i].t = "Num" THEN Depth(seq, i - 1) + 1
    ELSE IF IsOperator(seq[i]) THEN Depth(seq, i - 1) - 1
    ELSE Depth(seq, i - 1) - 2

Underflow(seq) ==
    \E i \in 1..Len(seq) : seq[i].t # "Num" /\ Depth(seq, i - 1) < 2

\* C9: evaluate returns Err(ParseError) exactly when a token that is no number
\* is reached with fewer than two values on the stack, or the stack is empty
\* after the last token; otherwise Ok of the top of the stack, whatever is
\* below it (after a final number, that number).
C9_EvaluateErrors ==
    (pc = "done" /\ conv.k = "Ok")
    => /\ res.k \in {"Ok", "Err"}
       /\ res.k = "Err"
          <=> (Underflow(conv.val) \/ Depth(conv.val, Len(conv.val)) = 0)
       /\ res.k = "Err" => res = Err("ParseError")
       /\ (res.k = "Ok" /\ conv.val[Len(conv.val)].t = "Num")
          => res.val = conv.val[Len(conv.val)].v

\* C9's case: two numbers and no operator (2 3): Ok of the second.
C9_Witness ==
    /\ pc = "done"
    /\ conv.k = "Ok"
    /\ Len(conv.val) = 2
    /\ conv.val[1].t = "Num" /\ conv.val[2].t = "Num"
    /\ conv.val[1] # conv.val[2]
    /\ res = Ok(conv.val[2].v)

=============================================================================
